---------------------------- MODULE Spec2Model ----------------------------
(***************************************************************************)
(* A model of miner_demo/multi_site_miner.py: the retrying Fetcher, the    *)
(* minimal robots.txt check, the two example parsers, the mine_target      *)
(* crawl loop, write_csv and main's loop over the targets.                 *)
(*                                                                         *)
(* Text (URLs, user agents, robots.txt bodies) is a sequence of one        *)
(* character strings, so that strip, lower, startswith, split and          *)
(* splitlines are computed character by character as Python computes them. *)
(***************************************************************************)
EXTENDS Integers, Sequences, FiniteSets, TLC

VARIABLES
    pc,             \* the statement the program is at
    exc,            \* the exception being propagated, or NoExc
    max_retries,    \* Fetcher.max_retries
    backoff_factor, \* Fetcher.backoff_factor, in tenths
    min_delay,      \* Fetcher.min_delay, in milliseconds
    max_delay,      \* Fetcher.max_delay, in milliseconds
    attempt,        \* Fetcher.get: the loop variable
    delay,          \* Fetcher.get: the local delay, in milliseconds
    outcomes,       \* Fetcher.get: the outcome of each request of this call, in order
    timeline,       \* Fetcher.get: the sleeps and requests of this call, in order
    resp,           \* the response Fetcher.get returned to its caller, or NoResp
    target,         \* mine_target: the Target argument
    max_pages,      \* mine_target: argument
    respect_robots, \* mine_target: argument
    queue,          \* mine_target: local
    seen_urls,      \* mine_target: local
    collected,      \* mine_target: local
    url,            \* mine_target: the URL dequeued last; Fetcher.get: its argument
    fetched,        \* history: the URLs mine_target passed to fetcher.get, in call order
    enqueued,       \* history: the URLs of this run in the order of their first enqueue
    robots_gets,    \* history: the robots.txt URLs requested by this run, in order
    denied,         \* history: the URLs robots_allows gave False for in this run, in order
    targets,        \* main: the list of targets
    t_idx,          \* main: position of the for loop in targets
    all_rows,       \* main: local
    rb_call,        \* robots_allows called on its own: its arguments and the reply
    rb_ret,         \* robots_allows called on its own: what the call gave back
    fn_call,        \* a parser or write_csv called on its own: its arguments
    fn_ret          \* a parser or write_csv called on its own: what the call gave back

vars == <<pc, exc, max_retries, backoff_factor, min_delay, max_delay, attempt, delay,
          outcomes, timeline, resp,
          target, max_pages, respect_robots, queue, seen_urls, collected, url,
          fetched, enqueued, robots_gets, denied, targets, t_idx, all_rows,
          rb_call, rb_ret, fn_call, fn_ret>>

fetcher_vars == <<max_retries, backoff_factor, min_delay, max_delay>>
get_vars     == <<attempt, delay, outcomes, timeline>>
mine_vars    == <<target, max_pages, respect_robots, queue, seen_urls, collected,
                  fetched, enqueued, robots_gets, denied>>
main_vars    == <<targets, t_idx, all_rows>>
robots_vars  == <<rb_call, rb_ret>>
fn_vars      == <<fn_call, fn_ret>>
call_vars    == <<robots_vars, fn_vars>>

-----------------------------------------------------------------------------
(* Bounds of the model.                                                     *)

MaxRetries     == 3   \* max_retries ranges over 0..MaxRetries
MaxPages       == 2   \* max_pages ranges over 0..MaxPages
MaxStart       == 2   \* start_urls has at most MaxStart entries
MaxNext        == 2   \* a discovery call returns at most MaxNext URLs
MaxRobotsLines == 2   \* a robots.txt body has at most MaxRobotsLines lines
MaxTargets     == 2   \* main's targets list has at most MaxTargets entries
MaxMainStart   == 1   \* under main, start_urls has at most MaxMainStart entries
MaxJsonItems   == 2   \* a JSON list has at most MaxJsonItems elements
MaxCards       == 2   \* an HTML page has at most MaxCards cards
MaxRows        == 2   \* write_csv is given at most MaxRows records

-----------------------------------------------------------------------------
(* Text.                                                                    *)

Min(S) == CHOOSE x \in S : \A y \in S : x <= y
Max(S) == CHOOSE x \in S : \A y \in S : x >= y

UpperChars == <<"A", "B", "C", "D", "E", "F", "G", "H", "I", "J", "K", "L", "M",
                "N", "O", "P", "Q", "R", "S", "T", "U", "V", "W", "X", "Y", "Z">>
LowerChars == <<"a", "b", "c", "d", "e", "f", "g", "h", "i", "j", "k", "l", "m",
                "n", "o", "p", "q", "r", "s", "t", "u", "v", "w", "x", "y", "z">>
Digits     == {"0", "1", "2", "3", "4", "5", "6", "7", "8", "9"}

Range(s) == {s[i] : i \in 1..Len(s)}

\* str.lower(), one character
LowerChar(c) ==
    IF c \in Range(UpperChars)
    THEN LowerChars[CHOOSE i \in 1..26 : UpperChars[i] = c]
    ELSE c

\* str.lower()
Lower(s) == [i \in 1..Len(s) |-> LowerChar(s[i])]

\* the characters str.strip() removes
IsSpace(c) == c \in {" ", "\t", "\n", "\r", "\f"}

\* str.strip()
Strip(s) ==
    LET keep == {i \in 1..Len(s) : ~IsSpace(s[i])}
    IN  IF keep = {} THEN <<>> ELSE SubSeq(s, Min(keep), Max(keep))

\* str.startswith(p)
StartsWith(s, p) == Len(s) >= Len(p) /\ SubSeq(s, 1, Len(p)) = p

\* str.find(c) for a single character, 0 when absent (Python: -1)
Find(s, c) ==
    LET at == {i \in 1..Len(s) : s[i] = c}
    IN  IF at = {} THEN 0 ELSE Min(at)

\* line.split(":", 1)[1], for a line that holds a colon
AfterColon(s) == SubSeq(s, Find(s, ":") + 1, Len(s))

\* str.splitlines(), for text whose only line break is "\n"
RECURSIVE SplitLines(_)
SplitLines(t) ==
    IF t = <<>> THEN <<>>
    ELSE LET k == Find(t, "\n")
         IN  IF k = 0 THEN <<t>>
             ELSE <<SubSeq(t, 1, k - 1)>> \o SplitLines(SubSeq(t, k + 1, Len(t)))


-----------------------------------------------------------------------------
(* urllib.parse.urlparse, for the three fields the program reads.  The     *)
(* URLs of the model hold no whitespace and no ";".                         *)

SchemeChars == Range(UpperChars) \cup Range(LowerChars) \cup Digits \cup {"+", "-", "."}
Letters     == Range(UpperChars) \cup Range(LowerChars)

\* the scheme, when the text before the first ":" is one
HasScheme(u) ==
    LET i == Find(u, ":")
    IN  /\ i > 1
        /\ u[1] \in Letters
        /\ \A k \in 1..(i - 1) : u[k] \in SchemeChars

\* what follows the scheme and its colon
AfterScheme(u) == IF HasScheme(u) THEN SubSeq(u, Find(u, ":") + 1, Len(u)) ELSE u

HasNetloc(u) == StartsWith(AfterScheme(u), <<"/", "/">>)

\* the first of "/", "?", "#" at or after position from, or Len(s) + 1
NextDelim(s, from, delims) ==
    LET at == {i \in from..Len(s) : s[i] \in delims}
    IN  IF at = {} THEN Len(s) + 1 ELSE Min(at)

Netloc(u) ==
    LET r == AfterScheme(u)
    IN  IF HasNetloc(u) THEN SubSeq(r, 3, NextDelim(r, 3, {"/", "?", "#"}) - 1) ELSE <<>>

AfterNetloc(u) ==
    LET r == AfterScheme(u)
    IN  IF HasNetloc(u) THEN SubSeq(r, NextDelim(r, 3, {"/", "?", "#"}), Len(r)) ELSE r

\* urlparse raises ValueError("Invalid IPv6 URL") on a netloc with one bracket only
UrlParseRaises(u) ==
    LET n == Netloc(u)
    IN  HasNetloc(u) /\ (("[" \in Range(n)) /= ("]" \in Range(n)))

UrlScheme(u) == IF HasScheme(u) THEN Lower(SubSeq(u, 1, Find(u, ":") - 1)) ELSE <<>>
UrlNetloc(u) == Netloc(u)
UrlPath(u)   == LET r == AfterNetloc(u) IN SubSeq(r, 1, NextDelim(r, 1, {"?", "#"}) - 1)

\* f"{parsed.scheme}://{parsed.netloc}"
Origin(u) == UrlScheme(u) \o <<":", "/", "/">> \o UrlNetloc(u)

\* f"{parsed.scheme}://{parsed.netloc}/robots.txt"
RobotsUrl(u) == Origin(u) \o <<"/", "r", "o", "b", "o", "t", "s", ".", "t", "x", "t">>

-----------------------------------------------------------------------------
(* robots_allows.                                                           *)

PrefixUserAgent == <<"u", "s", "e", "r", "-", "a", "g", "e", "n", "t", ":">>
PrefixDisallow  == <<"d", "i", "s", "a", "l", "l", "o", "w", ":">>

\* whether a "User-agent:" line with value ua opens a block that applies to user_agent
AgentMatches(ua, user_agent) == ua = <<>> \/ Lower(ua) = Lower(user_agent)

\* the loop over the lines: the list disallows it leaves
RECURSIVE ScanLines(_, _, _, _)
ScanLines(lines, user_agent, ua_block, disallows) ==
    IF lines = <<>> THEN disallows
    ELSE LET line == Strip(Head(lines))
             rest == Tail(lines)
         IN  IF line = <<>> \/ StartsWith(line, <<"#">>)
             THEN ScanLines(rest, user_agent, ua_block, disallows)
             ELSE IF StartsWith(Lower(line), PrefixUserAgent)
             THEN ScanLines(rest, user_agent,
                            AgentMatches(Strip(AfterColon(line)), user_agent), disallows)
             ELSE IF ua_block /\ StartsWith(Lower(line), PrefixDisallow)
             THEN ScanLines(rest, user_agent, ua_block,
                            Append(disallows, Strip(AfterColon(line))))
             ELSE ScanLines(rest, user_agent, ua_block, disallows)

\* the loop over disallows: whether path is let through
PathAllowed(path, disallows) ==
    ~ \E i \in 1..Len(disallows) : disallows[i] /= <<>> /\ StartsWith(path, disallows[i])

\* the reply to requests.get(robots_url): the call raised, or a status and a text
NetworkError == [kind |-> "error", status |-> 0, text |-> <<>>]
Reply(status, text) == [kind |-> "response", status |-> status, text |-> text]

\* what a call gives back: a value, or the exception that leaves it
Returns(v)  == [raised |-> FALSE, value |-> v]
RaisesValueError == [raised |-> TRUE, value |-> FALSE]

robots_allows(u, user_agent, reply) ==
    IF UrlParseRaises(u) THEN RaisesValueError
    ELSE IF reply.kind = "error" THEN Returns(TRUE)
    ELSE IF reply.status /= 200 THEN Returns(TRUE)
    ELSE LET disallows == ScanLines(SplitLines(reply.text), user_agent, FALSE, <<>>)
             path      == IF UrlPath(u) = <<>> THEN <<"/">> ELSE UrlPath(u)
         IN  Returns(PathAllowed(path, disallows))

-----------------------------------------------------------------------------
(* The inputs the model draws from.                                         *)

\* "https://h/private/x"
UPrivate ==
    <<"h", "t", "t", "p", "s", ":", "/", "/", "h", "/", "p", "r", "i", "v", "a", "t",
      "e", "/", "x">>

\* "https://h/public"
UPublic ==
    <<"h", "t", "t", "p", "s", ":", "/", "/", "h", "/", "p", "u", "b", "l", "i", "c">>

\* "http://g/", another origin
UOther ==
    <<"h", "t", "t", "p", ":", "/", "/", "g", "/">>

\* "http://[g/x", which urlparse refuses
UBad ==
    <<"h", "t", "t", "p", ":", "/", "/", "[", "g", "/", "x">>

\* the URLs of the model
URLS == {UPrivate, UPublic, UOther, UBad}

\* the URLs a crawl meets, in start_urls and in what discovery returns
CrawlUrls == {UPrivate, UPublic, UBad}

\* the user agents robots_allows is called with: the default "", "Bot", "*"
UserAgents == {<<>>, <<"B", "o", "t">>, <<"*">>}

\* "User-agent: *"
LineAgentStar ==
    <<"U", "s", "e", "r", "-", "a", "g", "e", "n", "t", ":", " ", "*">>

\* "User-agent:"
LineAgentBlank ==
    <<"U", "s", "e", "r", "-", "a", "g", "e", "n", "t", ":">>

\* "user-agent: bot"
LineAgentBot ==
    <<"u", "s", "e", "r", "-", "a", "g", "e", "n", "t", ":", " ", "b", "o", "t">>

\* "Disallow: /private"
LineDisallowPrivate ==
    <<"D", "i", "s", "a", "l", "l", "o", "w", ":", " ", "/", "p", "r", "i", "v", "a",
      "t", "e">>

\* "  DISALLOW: /pub  "
LineDisallowPub ==
    <<" ", " ", "D", "I", "S", "A", "L", "L", "O", "W", ":", " ", "/", "p", "u", "b",
      " ", " ">>

\* "Disallow:"
LineDisallowNothing ==
    <<"D", "i", "s", "a", "l", "l", "o", "w", ":">>

\* "# Disallow: /"
LineComment ==
    <<"#", " ", "D", "i", "s", "a", "l", "l", "o", "w", ":", " ", "/">>

\* "Disallow /private"
LineNoColon ==
    <<"D", "i", "s", "a", "l", "l", "o", "w", " ", "/", "p", "r", "i", "v", "a", "t",
      "e">>

\* the lines a robots.txt body of the model is made of
RobotsLines == {LineAgentStar, LineAgentBlank, LineAgentBot, LineDisallowPrivate,
                LineDisallowPub, LineDisallowNothing, LineComment, LineNoColon}

\* "\n".join(lines)
RECURSIVE JoinLines(_)
JoinLines(lines) ==
    IF lines = <<>> THEN <<>>
    ELSE IF Len(lines) = 1 THEN Head(lines)
    ELSE Head(lines) \o <<"\n">> \o JoinLines(Tail(lines))

\* the sequences over S of at most n entries
SeqsUpTo(S, n) == UNION {[1..k -> S] : k \in 0..n}

RobotsBodies == {JoinLines(ls) : ls \in SeqsUpTo(RobotsLines, MaxRobotsLines)}

\* what the robots.txt request can end in
RobotsReplies ==
    {NetworkError} \cup {Reply(404, <<>>)} \cup {Reply(200, b) : b \in RobotsBodies}

-----------------------------------------------------------------------------
(* Values that stand for "nothing yet".                                     *)

NoExc    == [type |-> "none", attempt |-> 0, status |-> 0]
NoResp   == [status |-> 0]
NoUrl    == <<>>
NoTarget == [name |-> 0, start_urls |-> <<>>, discover |-> FALSE]
NoCall   == [url |-> NoUrl, user_agent |-> <<>>, reply |-> NetworkError]
NoReturn == [raised |-> FALSE, value |-> FALSE]
NoFnCall   == [fn |-> "none"]
NoFnReturn == [raised |-> FALSE, error |-> "", value |-> <<>>]

-----------------------------------------------------------------------------
(* robots_allows called on its own.                                         *)

InitRobots ==
    /\ pc = "robots_call"
    /\ rb_call \in [url : URLS, user_agent : UserAgents, reply : RobotsReplies]
    /\ rb_ret = NoReturn
    /\ fn_call = NoFnCall /\ fn_ret = NoFnReturn
    /\ exc = NoExc
    /\ max_retries = 0 /\ backoff_factor = 0 /\ min_delay = 0 /\ max_delay = 0
    /\ attempt = 0 /\ delay = 0 /\ outcomes = <<>> /\ timeline = <<>> /\ resp = NoResp
    /\ target = NoTarget /\ max_pages = 0 /\ respect_robots = FALSE
    /\ queue = <<>> /\ seen_urls = {} /\ collected = <<>> /\ url = NoUrl
    /\ fetched = <<>> /\ enqueued = <<>> /\ robots_gets = <<>> /\ denied = <<>>
    /\ targets = <<>> /\ t_idx = 0 /\ all_rows = <<>>

\* the call returns a value
RobotsReturn ==
    /\ pc = "robots_call"
    /\ ~ robots_allows(rb_call.url, rb_call.user_agent, rb_call.reply).raised
    /\ rb_ret' = robots_allows(rb_call.url, rb_call.user_agent, rb_call.reply)
    /\ pc' = "robots_return"
    /\ UNCHANGED <<exc, fetcher_vars, get_vars, resp, mine_vars, url, main_vars, rb_call, fn_vars>>

\* the call raises
RobotsRaise ==
    /\ pc = "robots_call"
    /\ robots_allows(rb_call.url, rb_call.user_agent, rb_call.reply).raised
    /\ rb_ret' = robots_allows(rb_call.url, rb_call.user_agent, rb_call.reply)
    /\ exc' = [type |-> "ValueError", attempt |-> 0, status |-> 0]
    /\ pc' = "robots_raise"
    /\ UNCHANGED <<fetcher_vars, get_vars, resp, mine_vars, url, main_vars, rb_call, fn_vars>>

NextRobots == RobotsReturn \/ RobotsRaise

SpecRobots == InitRobots /\ [][NextRobots]_vars

-----------------------------------------------------------------------------
(* Fetcher.get.                                                             *)

\* the status codes a request of the model is answered with
Statuses == {200, 304, 404, 429, 503}

\* what self.session.get(url, timeout=...) can end in: a response, or one of
\* requests' exceptions (RequestException stands for those that are neither a
\* Timeout, a ConnectionError nor an HTTPError, such as TooManyRedirects)
RequestOutcomes ==
    {[kind |-> "response", status |-> st] : st \in Statuses}
    \cup {[kind |-> k, status |-> 0] : k \in {"Timeout", "ConnectionError", "RequestException"}}

\* the values of max_retries the fetcher of a crawl is built with; the retry
\* loop itself is explored up to MaxRetries where get is called on its own
CrawlRetries == {0, 1, 2}

\* the values of backoff_factor, in tenths: 0.3 and the default 1.7
BackoffFactors == {3, 17}
DefaultBackoffFactor == 17

\* the defaults of min_delay and max_delay, in milliseconds
DefaultMinDelay == 750
DefaultMaxDelay == 1750

\* the durations random.uniform(lo, hi) is sampled at: its two ends
Uniform(lo, hi) == {lo, hi}

\* one pass of the loop body up to the request: time.sleep(delay) when delay
\* is not zero, the courtesy sleep of _sleep_jitter, then self.session.get
AttemptEvents(d, jitter) ==
    (IF d /= 0 THEN <<[kind |-> "backoff", ms |-> d]>> ELSE <<>>)
    \o <<[kind |-> "courtesy", ms |-> jitter], [kind |-> "request", ms |-> 0]>>

\* resp.status_code in (429, 500, 502, 503, 504)
IsTransient(status) == status \in {429, 500, 502, 503, 504}

\* a defect: raise_for_status() that raises for every status
RaiseForStatusRaisesAlways(status) == TRUE

\* resp.raise_for_status() raises HTTPError
RaiseForStatusRaises(status) == 400 <= status /\ status < 600

\* the body of the try statement raises
AttemptRaises(o) ==
    \/ o.kind /= "response"
    \/ IsTransient(o.status)
    \/ RaiseForStatusRaises(o.status)

\* the type of the exception the body of the try statement raises
RaisedType(o) == IF o.kind = "response" THEN "HTTPError" ELSE o.kind

\* a defect: an except clause that names requests.HTTPError alone
CaughtHTTPErrorOnly(o) == RaisedType(o) = "HTTPError"

\* except (requests.Timeout, requests.ConnectionError, requests.HTTPError)
Caught(o) == RaisedType(o) \in {"Timeout", "ConnectionError", "HTTPError"}

\* a defect: the last attempt taken to be the one after max_retries
LastAttemptOffByOne(a, retries) == a = retries + 1

\* the except clause raises again instead of setting the delay
LastAttempt(a, retries) == a = retries

RECURSIVE Pow(_, _)
Pow(b, e) == IF e = 0 THEN 1 ELSE b * Pow(b, e - 1)

\* a defect: the delay without its floor of half a second
BackoffNoFloor(factor, a) == (1000 * Pow(factor, a - 1)) \div Pow(10, a - 1)

\* max(0.5, self.backoff_factor ** (attempt - 1)), in milliseconds
Backoff(factor, a) ==
    LET ms == (1000 * Pow(factor, a - 1)) \div Pow(10, a - 1)
    IN  IF ms > 500 THEN ms ELSE 500

\* the exception an attempt leaves get with
ExcOf(o, a) == [type |-> RaisedType(o), attempt |-> a, status |-> o.status]

\* an attempt gets a response that raise_for_status lets through: return resp
GetReturn ==
    /\ pc = "get_loop"
    /\ attempt <= max_retries
    /\ \E o \in RequestOutcomes :
        /\ ~ AttemptRaises(o)
        /\ outcomes' = Append(outcomes, o)
        /\ \E jitter \in Uniform(min_delay, max_delay) :
            timeline' = timeline \o AttemptEvents(delay, jitter)
        /\ resp' = [status |-> o.status]
    /\ pc' = "get_return"
    /\ UNCHANGED <<exc, fetcher_vars, attempt, delay, mine_vars, url, main_vars, call_vars>>

\* an attempt raises, the except clause catches it and sets the delay
GetRetry ==
    /\ pc = "get_loop"
    /\ attempt <= max_retries
    /\ \E o \in RequestOutcomes :
        /\ AttemptRaises(o) /\ Caught(o) /\ ~ LastAttempt(attempt, max_retries)
        /\ outcomes' = Append(outcomes, o)
        /\ \E jitter \in Uniform(min_delay, max_delay) :
            timeline' = timeline \o AttemptEvents(delay, jitter)
    /\ delay' = Backoff(backoff_factor, attempt)
    /\ attempt' = attempt + 1
    /\ pc' = "get_loop"
    /\ UNCHANGED <<exc, fetcher_vars, resp, mine_vars, url, main_vars, call_vars>>

\* an attempt raises and the exception leaves get: it is not caught, or it is
\* caught on the last attempt and raised again
GetRaise ==
    /\ pc = "get_loop"
    /\ attempt <= max_retries
    /\ \E o \in RequestOutcomes :
        /\ AttemptRaises(o) /\ (~ Caught(o) \/ LastAttempt(attempt, max_retries))
        /\ outcomes' = Append(outcomes, o)
        /\ \E jitter \in Uniform(min_delay, max_delay) :
            timeline' = timeline \o AttemptEvents(delay, jitter)
        /\ exc' = ExcOf(o, attempt)
    /\ pc' = "get_raise"
    /\ UNCHANGED <<fetcher_vars, attempt, delay, resp, mine_vars, url, main_vars, call_vars>>

\* the for loop ends: raise RuntimeError("Unreachable")
GetUnreachable ==
    /\ pc = "get_loop"
    /\ attempt > max_retries
    /\ exc' = [type |-> "RuntimeError", attempt |-> 0, status |-> 0]
    /\ pc' = "get_raise"
    /\ UNCHANGED <<fetcher_vars, get_vars, resp, mine_vars, url, main_vars, call_vars>>

NextGet == GetReturn \/ GetRetry \/ GetRaise \/ GetUnreachable

\* Fetcher.get called on its own
InitFetch ==
    /\ pc = "get_loop"
    /\ max_retries \in 0..MaxRetries
    /\ backoff_factor \in BackoffFactors
    /\ min_delay = DefaultMinDelay /\ max_delay = DefaultMaxDelay
    /\ url \in URLS
    /\ attempt = 1 /\ delay = 0 /\ outcomes = <<>> /\ timeline = <<>> /\ resp = NoResp
    /\ exc = NoExc
    /\ target = NoTarget /\ max_pages = 0 /\ respect_robots = FALSE
    /\ queue = <<>> /\ seen_urls = {} /\ collected = <<>>
    /\ fetched = <<>> /\ enqueued = <<>> /\ robots_gets = <<>> /\ denied = <<>>
    /\ targets = <<>> /\ t_idx = 0 /\ all_rows = <<>>
    /\ rb_call = NoCall /\ rb_ret = NoReturn
    /\ fn_call = NoFnCall /\ fn_ret = NoFnReturn

SpecFetch == InitFetch /\ [][NextGet]_vars

-----------------------------------------------------------------------------
(* mine_target.                                                             *)

\* a Target: its name (here its position in the targets list), its start_urls
\* and whether discover_next_urls is set
TargetsUpTo(name, n) ==
    [name : {name}, start_urls : SeqsUpTo(CrawlUrls, n), discover : BOOLEAN]

Targets(name) == TargetsUpTo(name, MaxStart)

\* a record a parser returns: which target and page it came from, and its
\* position in the list the parser returned
Record(name, page, n) == [target |-> name, page |-> page, n |-> n]

\* the lists target.parser(resp, base_url) can return: no record, or one
ParserResults(name, page) == {<<>>, <<Record(name, page, 1)>>}

\* the lists target.discover_next_urls(resp, base_url) can return
DiscoverResults == SeqsUpTo(CrawlUrls, MaxNext)

\* s without the later occurrences of its entries
RECURSIVE FirstOccurrences(_)
FirstOccurrences(s) ==
    IF s = <<>> THEN <<>>
    ELSE LET init == SubSeq(s, 1, Len(s) - 1)
             last == s[Len(s)]
         IN  IF last \in Range(init) THEN FirstOccurrences(init)
             ELSE Append(FirstOccurrences(init), last)

\* the history of first enqueues after the entries of added were appended to the queue
NoteEnqueued(history, added) ==
    history \o FirstOccurrences(SelectSeq(added, LAMBDA u : u \notin Range(history)))

\* robots_allows(url), as mine_target calls it, for every reply the robots.txt
\* request can end in
RobotsVerdicts ==
    {<<u, robots_allows(u, <<>>, reply)>> : u \in CrawlUrls, reply \in RobotsReplies}

\* the URLs of a crawl on which urlparse(url) raises
UnparsableUrls == {u \in CrawlUrls : UrlParseRaises(u)}

\* some reply makes robots_allows(u) give back r
RobotsCanGive(u, r) == <<u, r>> \in RobotsVerdicts

\* a defect: the budget compared with <= instead of <
LoopContinuesInclusive(q, seen, pages) == q /= <<>> /\ Cardinality(seen) <= pages

\* while queue and len(seen_urls) < max_pages
LoopContinues(q, seen, pages) == q /= <<>> /\ Cardinality(seen) < pages

\* a defect: queue.pop(), which takes the URL appended last
PopLast(q) == [url |-> q[Len(q)], rest |-> SubSeq(q, 1, Len(q) - 1)]

\* a defect: url = queue[0], which leaves the URL in the queue
PopKeeps(q) == [url |-> Head(q), rest |-> q]

\* url = queue.pop(0): the URL taken and the queue left
Pop(q) == [url |-> Head(q), rest |-> Tail(q)]

Front(q) == Pop(q).url
Rest(q)  == Pop(q).rest

\* a defect: no check against seen_urls
AlreadySeenNever(u, seen) == FALSE

\* if url in seen_urls
AlreadySeen(u, seen) == u \in seen

\* a defect: every discovered URL is appended
EnqueueAll(q, next_urls, seen) == q \o next_urls

\* for nu in next_urls: if nu not in seen_urls: queue.append(nu)
EnqueueNew(q, next_urls, seen) == q \o SelectSeq(next_urls, LAMBDA nu : nu \notin seen)

\* the loop condition fails: return collected
MtReturn ==
    /\ pc = "mt_loop"
    /\ ~ LoopContinues(queue, seen_urls, max_pages)
    /\ pc' = "mt_return"
    /\ UNCHANGED <<exc, fetcher_vars, get_vars, resp, mine_vars, url, main_vars, call_vars>>

\* the URL dequeued is in seen_urls: continue
MtSkipSeen ==
    /\ pc = "mt_loop"
    /\ LoopContinues(queue, seen_urls, max_pages)
    /\ AlreadySeen(Front(queue), seen_urls)
    /\ url' = Front(queue)
    /\ queue' = Rest(queue)
    /\ UNCHANGED <<pc, exc, fetcher_vars, get_vars, resp, target, max_pages, respect_robots,
                   seen_urls, collected, fetched, enqueued, robots_gets, denied, main_vars,
                   call_vars>>

\* a defect: a denied URL is skipped before it is added to seen_urls
MtRobotsDenyUncounted ==
    /\ pc = "mt_loop"
    /\ LoopContinues(queue, seen_urls, max_pages)
    /\ ~ AlreadySeen(Front(queue), seen_urls)
    /\ respect_robots
    /\ RobotsCanGive(Front(queue), Returns(FALSE))
    /\ url' = Front(queue)
    /\ queue' = Rest(queue)
    /\ robots_gets' = Append(robots_gets, RobotsUrl(Front(queue)))
    /\ denied' = Append(denied, Front(queue))
    /\ UNCHANGED <<pc, exc, fetcher_vars, get_vars, resp, target, max_pages, respect_robots,
                   seen_urls, collected, fetched, enqueued, main_vars, call_vars>>

\* the URL dequeued is new and robots_allows(url) is false: continue
MtRobotsDeny ==
    /\ pc = "mt_loop"
    /\ LoopContinues(queue, seen_urls, max_pages)
    /\ ~ AlreadySeen(Front(queue), seen_urls)
    /\ respect_robots
    /\ RobotsCanGive(Front(queue), Returns(FALSE))
    /\ url' = Front(queue)
    /\ queue' = Rest(queue)
    /\ seen_urls' = seen_urls \cup {Front(queue)}
    /\ robots_gets' = Append(robots_gets, RobotsUrl(Front(queue)))
    /\ denied' = Append(denied, Front(queue))
    /\ UNCHANGED <<pc, exc, fetcher_vars, get_vars, resp, target, max_pages, respect_robots,
                   collected, fetched, enqueued, main_vars, call_vars>>

\* the URL dequeued is new and robots_allows(url) raises: the exception leaves mine_target
MtRobotsRaise ==
    /\ pc = "mt_loop"
    /\ LoopContinues(queue, seen_urls, max_pages)
    /\ ~ AlreadySeen(Front(queue), seen_urls)
    /\ respect_robots
    /\ RobotsCanGive(Front(queue), RaisesValueError)
    /\ url' = Front(queue)
    /\ queue' = Rest(queue)
    /\ seen_urls' = seen_urls \cup {Front(queue)}
    /\ exc' = [type |-> "ValueError", attempt |-> 0, status |-> 0]
    /\ pc' = "mt_raise"
    /\ UNCHANGED <<fetcher_vars, get_vars, resp, target, max_pages, respect_robots,
                   collected, fetched, enqueued, robots_gets, denied, main_vars, call_vars>>

\* the URL dequeued is new and not denied: resp = fetcher.get(url) is called
MtFetch ==
    /\ pc = "mt_loop"
    /\ LoopContinues(queue, seen_urls, max_pages)
    /\ ~ AlreadySeen(Front(queue), seen_urls)
    /\ \/ ~ respect_robots /\ UNCHANGED robots_gets
       \/ /\ respect_robots
          /\ RobotsCanGive(Front(queue), Returns(TRUE))
          /\ robots_gets' = Append(robots_gets, RobotsUrl(Front(queue)))
    /\ url' = Front(queue)
    /\ queue' = Rest(queue)
    /\ seen_urls' = seen_urls \cup {Front(queue)}
    /\ fetched' = Append(fetched, Front(queue))
    /\ attempt' = 1 /\ delay' = 0 /\ outcomes' = <<>> /\ timeline' = <<>>
    /\ pc' = "get_loop"
    /\ UNCHANGED <<exc, fetcher_vars, resp, target, max_pages, respect_robots,
                   collected, enqueued, denied, main_vars, call_vars>>

\* a defect: the exception of fetcher.get is caught and the loop goes on
MtGetRaisedSkips ==
    /\ pc = "get_raise"
    /\ attempt' = 0 /\ delay' = 0 /\ outcomes' = <<>> /\ timeline' = <<>>
    /\ exc' = NoExc
    /\ pc' = "mt_loop"
    /\ UNCHANGED <<fetcher_vars, resp, mine_vars, url, main_vars, call_vars>>

\* fetcher.get raised: mine_target catches nothing, the exception leaves it
MtGetRaised ==
    /\ pc = "get_raise"
    /\ attempt' = 0 /\ delay' = 0 /\ outcomes' = <<>> /\ timeline' = <<>>
    /\ pc' = "mt_raise"
    /\ UNCHANGED <<exc, fetcher_vars, resp, mine_vars, url, main_vars, call_vars>>

\* fetcher.get returned and urlparse(url) raises while base_url is built
MtBaseUrlRaises ==
    /\ pc = "get_return"
    /\ url \in UnparsableUrls
    /\ exc' = [type |-> "ValueError", attempt |-> 0, status |-> 0]
    /\ attempt' = 0 /\ delay' = 0 /\ outcomes' = <<>> /\ timeline' = <<>> /\ resp' = NoResp
    /\ pc' = "mt_raise"
    /\ UNCHANGED <<fetcher_vars, mine_vars, url, main_vars, call_vars>>

\* fetcher.get returned and target.parser raises
MtParserRaises ==
    /\ pc = "get_return"
    /\ url \notin UnparsableUrls
    /\ exc' = [type |-> "ParserError", attempt |-> 0, status |-> 0]
    /\ attempt' = 0 /\ delay' = 0 /\ outcomes' = <<>> /\ timeline' = <<>> /\ resp' = NoResp
    /\ pc' = "mt_raise"
    /\ UNCHANGED <<fetcher_vars, mine_vars, url, main_vars, call_vars>>

\* the parser returned its items and target.discover_next_urls raises
MtDiscoverRaises ==
    /\ pc = "get_return"
    /\ url \notin UnparsableUrls
    /\ target.discover
    /\ \E items \in ParserResults(target.name, url) : collected' = collected \o items
    /\ exc' = [type |-> "DiscoverError", attempt |-> 0, status |-> 0]
    /\ attempt' = 0 /\ delay' = 0 /\ outcomes' = <<>> /\ timeline' = <<>> /\ resp' = NoResp
    /\ pc' = "mt_raise"
    /\ UNCHANGED <<fetcher_vars, target, max_pages, respect_robots, queue,
                   seen_urls, fetched, enqueued, robots_gets, denied, url, main_vars, call_vars>>

\* the parser returned its items, discovery (when the target has one) its URLs:
\* the items are collected, the URLs not yet seen are enqueued, and the loop goes on
MtPageDone ==
    /\ pc = "get_return"
    /\ url \notin UnparsableUrls
    /\ \E items \in ParserResults(target.name, url) : collected' = collected \o items
    /\ \E next_urls \in (IF target.discover THEN DiscoverResults ELSE {<<>>}) :
        /\ queue' = EnqueueNew(queue, next_urls, seen_urls)
        /\ enqueued' = NoteEnqueued(enqueued, SelectSeq(next_urls, LAMBDA nu : nu \notin seen_urls))
    /\ attempt' = 0 /\ delay' = 0 /\ outcomes' = <<>> /\ timeline' = <<>> /\ resp' = NoResp
    /\ pc' = "mt_loop"
    /\ UNCHANGED <<exc, fetcher_vars, target, max_pages, respect_robots, seen_urls,
                   fetched, robots_gets, denied, url, main_vars, call_vars>>

NextMine ==
    \/ MtReturn \/ MtSkipSeen \/ MtRobotsDeny \/ MtRobotsRaise \/ MtFetch
    \/ NextGet
    \/ MtGetRaised \/ MtBaseUrlRaises \/ MtParserRaises \/ MtDiscoverRaises \/ MtPageDone

\* the locals of mine_target as lines 203-205 set them
EnterMine(t) ==
    /\ target' = t
    /\ queue' = t.start_urls
    /\ seen_urls' = {}
    /\ collected' = <<>>
    /\ url' = NoUrl
    /\ fetched' = <<>>
    /\ enqueued' = FirstOccurrences(t.start_urls)
    /\ robots_gets' = <<>>
    /\ denied' = <<>>

\* mine_target called on its own, with a fetcher of the default backoff_factor
Init ==
    /\ pc = "mt_loop"
    /\ max_retries \in CrawlRetries
    /\ backoff_factor = DefaultBackoffFactor
    /\ min_delay = DefaultMinDelay /\ max_delay = DefaultMinDelay
    /\ target \in Targets(1)
    /\ max_pages \in 0..MaxPages
    /\ respect_robots \in BOOLEAN
    /\ queue = target.start_urls
    /\ seen_urls = {}
    /\ collected = <<>>
    /\ url = NoUrl
    /\ fetched = <<>>
    /\ enqueued = FirstOccurrences(target.start_urls)
    /\ robots_gets = <<>>
    /\ denied = <<>>
    /\ attempt = 0 /\ delay = 0 /\ outcomes = <<>> /\ timeline = <<>> /\ resp = NoResp
    /\ exc = NoExc
    /\ targets = <<>> /\ t_idx = 0 /\ all_rows = <<>>
    /\ rb_call = NoCall /\ rb_ret = NoReturn
    /\ fn_call = NoFnCall /\ fn_ret = NoFnReturn

Next == NextMine

Spec == Init /\ [][Next]_vars

\* the calls mine_target makes return or raise, and the loop takes its next step
FairSpec == Spec /\ WF_vars(Next)

-----------------------------------------------------------------------------
(* main: the loop over the targets.  main passes respect_robots=True and    *)
(* builds its fetcher with max_retries=4; the model draws these two from    *)
(* the values mine_target is run with on its own.                           *)

\* mine_target(fetcher, t, max_pages=10, respect_robots=True)
MainMaxPages == 10

\* for t in targets: rows = mine_target(fetcher, t, max_pages=10, respect_robots=True)
MainCall ==
    /\ pc = "main_loop"
    /\ t_idx <= Len(targets)
    /\ EnterMine(targets[t_idx])
    /\ pc' = "mt_loop"
    /\ UNCHANGED <<exc, fetcher_vars, get_vars, resp, max_pages, respect_robots,
                   main_vars, call_vars>>

\* mine_target returned: all_rows.extend(rows), and the for loop moves on
MainExtend ==
    /\ pc = "mt_return"
    /\ all_rows' = all_rows \o collected
    /\ t_idx' = t_idx + 1
    /\ pc' = "main_loop"
    /\ UNCHANGED <<exc, fetcher_vars, get_vars, resp, mine_vars, url, targets, call_vars>>

\* mine_target raised: main has no try statement, the exception ends the program
MainMineRaised ==
    /\ pc = "mt_raise"
    /\ pc' = "main_raise"
    /\ UNCHANGED <<exc, fetcher_vars, get_vars, resp, mine_vars, url, main_vars, call_vars>>

\* the for loop is over: the rows are written and the count is printed
MainOutput ==
    /\ pc = "main_loop"
    /\ t_idx > Len(targets)
    /\ pc' = "main_done"
    /\ UNCHANGED <<exc, fetcher_vars, get_vars, resp, mine_vars, url, main_vars, call_vars>>

\* the targets lists: the entry at position i is named i
TargetLists ==
    UNION {{ts \in [1..k -> UNION {TargetsUpTo(i, MaxMainStart) : i \in 1..k}] :
                \A i \in 1..k : ts[i].name = i} : k \in 0..MaxTargets}

InitMain ==
    /\ pc = "main_loop"
    /\ max_retries \in CrawlRetries
    /\ backoff_factor = DefaultBackoffFactor
    /\ min_delay = DefaultMinDelay /\ max_delay = DefaultMinDelay
    /\ targets \in TargetLists
    /\ t_idx = 1
    /\ all_rows = <<>>
    /\ max_pages = MainMaxPages
    /\ respect_robots \in BOOLEAN
    /\ target = NoTarget
    /\ queue = <<>> /\ seen_urls = {} /\ collected = <<>> /\ url = NoUrl
    /\ fetched = <<>> /\ enqueued = <<>> /\ robots_gets = <<>> /\ denied = <<>>
    /\ attempt = 0 /\ delay = 0 /\ outcomes = <<>> /\ timeline = <<>> /\ resp = NoResp
    /\ exc = NoExc
    /\ rb_call = NoCall /\ rb_ret = NoReturn
    /\ fn_call = NoFnCall /\ fn_ret = NoFnReturn

NextMain == MainCall \/ NextMine \/ MainExtend \/ MainMineRaised \/ MainOutput

SpecMain == InitMain /\ [][NextMain]_vars

-----------------------------------------------------------------------------
(* parse_example_json.  A JSON value, as resp.json() gives it, is a record  *)
(* of its type and its members: the elements of a list, the key-value map   *)
(* of an object, the one value of a number.                                 *)

JNull     == [type |-> "null", members |-> <<>>]
JNum(n)   == [type |-> "number", members |-> <<n>>]
JList(es) == [type |-> "list", members |-> es]
JObj(f)   == [type |-> "object", members |-> f]

\* what a call of a parser or of write_csv gives back
FnReturns(v) == [raised |-> FALSE, error |-> "", value |-> v]
FnRaises(e)  == [raised |-> TRUE, error |-> e, value |-> <<>>]

\* dict.get(key, default)
DictGet(d, key, default) ==
    IF key \in DOMAIN d.members THEN d.members[key] ELSE default

\* {"id": it.get("id"), "name": it.get("name"), "value": it.get("value"), "source": base_url}
JsonRecord(it, base_url) ==
    [id     |-> DictGet(it, "id", JNull),
     name   |-> DictGet(it, "name", JNull),
     value  |-> DictGet(it, "value", JNull),
     source |-> base_url]

\* for it in items: results.append({...}), for the values items can be
JsonRecordsOf(items, base_url) ==
    IF items.type \in {"null", "number"} THEN FnRaises("TypeError")
    ELSE IF items.type = "object"
    THEN IF DOMAIN items.members = {} THEN FnReturns(<<>>) ELSE FnRaises("AttributeError")
    ELSE IF \E i \in 1..Len(items.members) : items.members[i].type /= "object"
    THEN FnRaises("AttributeError")
    ELSE FnReturns([i \in 1..Len(items.members) |-> JsonRecord(items.members[i], base_url)])

\* data.get("items", ...) needs a dict: a list, a number or None has no get
parse_example_json(data, base_url) ==
    IF data.type /= "object" THEN FnRaises("AttributeError")
    ELSE JsonRecordsOf(DictGet(data, "items", JList(<<>>)), base_url)

\* the items of the model: objects with any of the three fields, and a number
JsonItemObjects ==
    {JObj([k \in ks |-> JNum(1)]) : ks \in SUBSET {"id", "name", "value"}}
JsonElements == JsonItemObjects \cup {JNum(2)}
JsonLists == {JList(es) : es \in SeqsUpTo(JsonElements, MaxJsonItems)}

\* the bodies of the model: {"items": [...]}, [...], {"items": x} for an x
\* that is no list, {"other": 1}, {}, 1, null
JsonBodies ==
    {JObj([k \in {"items"} |-> l]) : l \in JsonLists}
    \cup JsonLists
    \cup {JObj([k \in {"items"} |-> x]) : x \in {JNull, JNum(1), JObj(<<>>)}}
    \cup {JObj([k \in {"other"} |-> JNum(1)]), JObj(<<>>), JNum(1), JNull}

\* the base_url of the model
BaseUrls == {Origin(UPublic), Origin(UOther)}

\* the state of everything outside a call of a parser or of write_csv
NothingElseRuns ==
    /\ exc = NoExc
    /\ max_retries = 0 /\ backoff_factor = 0 /\ min_delay = 0 /\ max_delay = 0
    /\ attempt = 0 /\ delay = 0 /\ outcomes = <<>> /\ timeline = <<>> /\ resp = NoResp
    /\ target = NoTarget /\ max_pages = 0 /\ respect_robots = FALSE
    /\ queue = <<>> /\ seen_urls = {} /\ collected = <<>> /\ url = NoUrl
    /\ fetched = <<>> /\ enqueued = <<>> /\ robots_gets = <<>> /\ denied = <<>>
    /\ targets = <<>> /\ t_idx = 0 /\ all_rows = <<>>
    /\ rb_call = NoCall /\ rb_ret = NoReturn

InitJson ==
    /\ pc = "json_call"
    /\ fn_call \in [fn : {"parse_example_json"}, data : JsonBodies, base_url : BaseUrls]
    /\ fn_ret = NoFnReturn
    /\ NothingElseRuns

\* the call returns its list of records
JsonReturn ==
    /\ pc = "json_call"
    /\ ~ parse_example_json(fn_call.data, fn_call.base_url).raised
    /\ fn_ret' = parse_example_json(fn_call.data, fn_call.base_url)
    /\ pc' = "json_return"
    /\ UNCHANGED <<exc, fetcher_vars, get_vars, resp, mine_vars, url, main_vars,
                   robots_vars, fn_call>>

\* the call raises
JsonRaise ==
    /\ pc = "json_call"
    /\ parse_example_json(fn_call.data, fn_call.base_url).raised
    /\ fn_ret' = parse_example_json(fn_call.data, fn_call.base_url)
    /\ exc' = [type |-> fn_ret'.error, attempt |-> 0, status |-> 0]
    /\ pc' = "json_raise"
    /\ UNCHANGED <<fetcher_vars, get_vars, resp, mine_vars, url, main_vars,
                   robots_vars, fn_call>>

NextJson == JsonReturn \/ JsonRaise

SpecJson == InitJson /\ [][NextJson]_vars

-----------------------------------------------------------------------------
(* parse_example_html.  A page is the list of its cards, in document order, *)
(* as soup.select(".card, .item, article") gives them; a card holds what     *)
(* the three select_one calls find in it.                                    *)

\* Python's None and a str, as the values of a record
PyNone   == [is_none |-> TRUE, text |-> <<>>]
PyStr(t) == [is_none |-> FALSE, text |-> t]

\* the truth value of None or a str: "if title or href or price"
Truthy(v) == ~ v.is_none /\ v.text /= <<>>

\* what select_one gives for a title or a price: no element, or one with its text
NoElement     == [found |-> FALSE, text |-> <<>>]
Element(text) == [found |-> TRUE, text |-> text]

\* what select_one gives for the link: no element, one without href, one with
NoLink         == [found |-> FALSE, has_href |-> FALSE, href |-> <<>>]
LinkNoHref     == [found |-> TRUE, has_href |-> FALSE, href |-> <<>>]
LinkTo(href)   == [found |-> TRUE, has_href |-> TRUE, href |-> href]

\* el.get_text(strip=True) if el else None
TextOrNone(el) == IF el.found THEN PyStr(Strip(el.text)) ELSE PyNone

\* urljoin(base_url, href), for a base_url of scheme and host only
UrlJoin(base_url, href) ==
    IF HasScheme(href) THEN href
    ELSE IF StartsWith(href, <<"/">>) THEN base_url \o href
    ELSE base_url \o <<"/">> \o href

\* urljoin(base_url, link_el["href"]) if link_el and link_el.get("href") else None
HrefOrNone(link, base_url) ==
    IF link.found /\ link.has_href /\ link.href /= <<>>
    THEN PyStr(UrlJoin(base_url, link.href))
    ELSE PyNone

\* the record a card gives when it gives one
HtmlRecord(card, base_url) ==
    [title  |-> TextOrNone(card.title),
     url    |-> HrefOrNone(card.link, base_url),
     price  |-> TextOrNone(card.price),
     source |-> base_url]

\* if title or href or price
CardEmits(card, base_url) ==
    \/ Truthy(TextOrNone(card.title))
    \/ Truthy(HrefOrNone(card.link, base_url))
    \/ Truthy(TextOrNone(card.price))

\* the loop over the cards: the list results it leaves
parse_example_html(cards, base_url) ==
    LET emitting == SelectSeq(cards, LAMBDA c : CardEmits(c, base_url))
    IN  FnReturns([i \in 1..Len(emitting) |-> HtmlRecord(emitting[i], base_url)])

\* the cards of the model: a title that is absent, blank (" ") or "T"; a link
\* that is absent, without href, with href "" or with href "/i"; a price that
\* is absent, blank or "5"
HtmlCards ==
    [title : {NoElement, Element(<<" ">>), Element(<<"T">>)},
     link  : {NoLink, LinkNoHref, LinkTo(<<>>), LinkTo(<<"/", "i">>)},
     price : {NoElement, Element(<<" ">>), Element(<<"5">>)}]

HtmlPages == SeqsUpTo(HtmlCards, MaxCards)

InitHtml ==
    /\ pc = "html_call"
    /\ fn_call \in [fn : {"parse_example_html"}, cards : HtmlPages, base_url : {Origin(UPublic)}]
    /\ fn_ret = NoFnReturn
    /\ NothingElseRuns

\* the call returns its list of records
HtmlReturn ==
    /\ pc = "html_call"
    /\ fn_ret' = parse_example_html(fn_call.cards, fn_call.base_url)
    /\ pc' = "html_return"
    /\ UNCHANGED <<exc, fetcher_vars, get_vars, resp, mine_vars, url, main_vars,
                   robots_vars, fn_call>>

NextHtml == HtmlReturn

SpecHtml == InitHtml /\ [][NextHtml]_vars

-----------------------------------------------------------------------------
(* write_csv.  A record is a function from its keys, one-letter strings,    *)
(* to None or a str; the file is what csv.DictWriter wrote: whether the     *)
(* file was written at all, its header, and the cells of each row.          *)

\* ord(c), for a letter
CodePoint(c) ==
    IF c \in Range(UpperChars)
    THEN 64 + (CHOOSE i \in 1..26 : UpperChars[i] = c)
    ELSE 96 + (CHOOSE i \in 1..26 : LowerChars[i] = c)

\* sorted(S), for a set of one-letter strings
RECURSIVE Sorted(_)
Sorted(S) ==
    IF S = {} THEN <<>>
    ELSE LET least == CHOOSE x \in S : \A y \in S : CodePoint(x) <= CodePoint(y)
         IN  <<least>> \o Sorted(S \ {least})

\* {k for r in rows for k in r.keys()}
AllKeys(rows) == UNION {DOMAIN rows[i] : i \in 1..Len(rows)}

\* the cell DictWriter writes for key k of row r: restval "" for a missing
\* key, "" for None, the text otherwise
Cell(r, k) == IF k \in DOMAIN r /\ ~ r[k].is_none THEN r[k].text ELSE <<>>

NoFile == [written |-> FALSE, header |-> <<>>, lines |-> <<>>]

write_csv(rows) ==
    IF rows = <<>> THEN FnReturns(NoFile)
    ELSE LET keys == Sorted(AllKeys(rows))
         IN  FnReturns([written |-> TRUE,
                        header  |-> keys,
                        lines   |-> [i \in 1..Len(rows) |->
                                        [j \in 1..Len(keys) |-> Cell(rows[i], keys[j])]]])

\* the records of the model: any of the keys a, b, c, each None or "1"
CsvKeys == {"a", "b", "c"}
CsvRecords ==
    UNION {[ks -> {PyNone, PyStr(<<"1">>)}] : ks \in SUBSET CsvKeys}
CsvRowLists == SeqsUpTo(CsvRecords, MaxRows)

InitCsv ==
    /\ pc = "csv_call"
    /\ fn_call \in [fn : {"write_csv"}, rows : CsvRowLists]
    /\ fn_ret = NoFnReturn
    /\ NothingElseRuns

\* the call returns: with the file written, or at once for an empty list
CsvReturn ==
    /\ pc = "csv_call"
    /\ fn_ret' = write_csv(fn_call.rows)
    /\ pc' = "csv_return"
    /\ UNCHANGED <<exc, fetcher_vars, get_vars, resp, mine_vars, url, main_vars,
                   robots_vars, fn_call>>

NextCsv == CsvReturn

SpecCsv == InitCsv /\ [][NextCsv]_vars

-----------------------------------------------------------------------------
(* The properties.                                                          *)

\* the position of u in the sequence s of distinct entries
Pos(s, u) == CHOOSE i \in 1..Len(s) : s[i] = u

NoRepeats(s) == \A i, j \in 1..Len(s) : i /= j => s[i] /= s[j]

\* C1: in a run of mine_target, fetcher.get is called at most once for each
\* URL, whatever start_urls repeats and whatever discovery returns.
C1_FetchedAtMostOnce == NoRepeats(fetched)

\* a start list that names one URL twice was consumed whole and the URL fetched once
C1_Witness ==
    /\ pc = "mt_return"
    /\ queue = <<>>
    /\ Len(target.start_urls) = 2
    /\ target.start_urls[1] = target.start_urls[2]
    /\ fetched = <<target.start_urls[1]>>

\* C2: in every state of a run, seen_urls holds at most max_pages URLs and at
\* most max_pages calls of fetcher.get were made.
C2_SeenWithinBudget ==
    /\ Cardinality(seen_urls) <= max_pages
    /\ Len(fetched) <= max_pages

\* the budget is used up while discovery has left URLs not yet seen in the queue
C2_Witness ==
    /\ pc = "mt_return"
    /\ target.discover
    /\ max_pages = MaxPages
    /\ Cardinality(seen_urls) = max_pages
    /\ \E i \in 1..Len(queue) : queue[i] \notin seen_urls

\* the loop of mine_target is over: by an exception, or by its condition
Stopped ==
    \/ pc = "mt_raise"
    \/ pc = "mt_return" /\ (queue = <<>> \/ Cardinality(seen_urls) >= max_pages)

\* C3: when every call mine_target makes returns or raises, its loop stops:
\* with an exception, with the queue empty, or with max_pages URLs seen.
C3_LoopStops == <>Stopped

\* a queue that held a repeated start URL was drained with budget to spare
C3_Witness ==
    /\ pc = "mt_return"
    /\ queue = <<>>
    /\ Cardinality(seen_urls) < max_pages
    /\ Len(target.start_urls) > Cardinality(Range(target.start_urls))

\* a retryable failure as the specification lists them: one of the five
\* status codes, a timeout, a connection error
RetryableFailure(o) ==
    \/ o.kind = "response" /\ o.status \in {429, 500, 502, 503, 504}
    \/ o.kind \in {"Timeout", "ConnectionError"}

AllRetryable(os) == \A i \in 1..Len(os) : RetryableFailure(os[i])

\* C4: when every attempt of Fetcher.get ends in a retryable failure and
\* max_retries >= 1, get issues exactly max_retries requests and then raises
\* the error of the last one; it returns no response.
C4_RetriesExhausted ==
    (max_retries >= 1 /\ AllRetryable(outcomes)) =>
        /\ Len(outcomes) <= max_retries
        /\ pc /= "get_return"
        /\ pc = "get_loop" => Len(outcomes) = attempt - 1 /\ attempt <= max_retries
        /\ pc = "get_raise" =>
            /\ Len(outcomes) = max_retries
            /\ exc = ExcOf(outcomes[max_retries], max_retries)

\* three attempts failed, by a timeout, a 503 and a connection error, and get raised
C4_Witness ==
    /\ pc = "get_raise"
    /\ max_retries = 3
    /\ Len(outcomes) = 3
    /\ outcomes[1].kind = "Timeout"
    /\ outcomes[2].status = 503
    /\ outcomes[3].kind = "ConnectionError"
    /\ exc.type = "ConnectionError"

\* a response the specification calls non-retryable: not 2xx, not one of the five
NonRetryableStatus(o) ==
    /\ o.kind = "response"
    /\ ~ (200 <= o.status /\ o.status < 300)
    /\ o.status \notin {429, 500, 502, 503, 504}

\* C5: an attempt of Fetcher.get that receives a status that is neither 2xx
\* nor one of 429, 500, 502, 503, 504 is the last one: get raises an HTTP error
\* right after it, with no further request and no backoff.
C5_NonRetryableRaisesAtOnce ==
    \A i \in 1..Len(outcomes) :
        NonRetryableStatus(outcomes[i]) =>
            /\ i = Len(outcomes)
            /\ pc = "get_raise"
            /\ exc = [type |-> "HTTPError", attempt |-> i, status |-> outcomes[i].status]

\* "User-agent: *", "Disallow: /private", served with status 200
StarPrivateReply == Reply(200, JoinLines(<<LineAgentStar, LineDisallowPrivate>>))

\* C6: with the robots.txt "User-agent: *" / "Disallow: /private" served
\* with status 200, robots_allows(url) with the default user agent is false
\* for the path /private/x and true for the path /public.
C6_StarBlockDisallows ==
    (/\ pc /= "robots_call"
     /\ rb_call.reply = StarPrivateReply
     /\ rb_call.user_agent = <<>>) =>
        /\ rb_call.url = UPrivate => (~ rb_ret.raised /\ rb_ret.value = FALSE)
        /\ rb_call.url = UPublic => (~ rb_ret.raised /\ rb_ret.value = TRUE)

\* C7: robots_allows never raises, and it gives true whenever the robots.txt
\* request fails or is answered with a status other than 200.
C7_RobotsNeverRaises ==
    /\ pc /= "robots_raise"
    /\ (pc = "robots_return" /\ (rb_call.reply.kind = "error" \/ rb_call.reply.status /= 200))
            => rb_ret.value = TRUE

\* C8: when main ends because the crawl of one target failed, that target was
\* the last of the list: no target after it is left without its crawl.
C8_LaterTargetsStillCrawled == pc = "main_raise" => t_idx = Len(targets)

\* C9: an exception of fetcher.get leaves mine_target at once: the queue,
\* seen_urls, the calls made and the records stay as they were, mine_target
\* ends by that exception and returns nothing afterwards.
C9_FetchErrorAborts ==
    [][/\ pc = "get_raise" =>
            /\ pc' = "mt_raise"
            /\ exc' = exc
            /\ UNCHANGED <<queue, seen_urls, collected, fetched, robots_gets, url>>
       /\ pc = "mt_raise" => pc' = "mt_raise"]_vars

\* a fetch error ended a run that had collected records and had URLs left to visit
C9_Witness ==
    /\ pc = "mt_raise"
    /\ exc.type \in {"HTTPError", "Timeout", "ConnectionError", "RequestException"}
    /\ collected /= <<>>
    /\ queue /= <<>>
    /\ Len(fetched) = 2

\* C10: URLs are fetched in the order of their first enqueue: of two URLs
\* fetched, the one enqueued first was fetched first.
C10_FetchedInEnqueueOrder ==
    /\ Range(fetched) \subseteq Range(enqueued)
    /\ \A i, j \in 1..Len(fetched) :
        i < j => Pos(enqueued, fetched[i]) < Pos(enqueued, fetched[j])

\* a start URL and then a discovered URL were fetched, a third URL waits
C10_Witness ==
    /\ pc = "mt_return"
    /\ Len(fetched) = 2
    /\ fetched[1] \in Range(target.start_urls)
    /\ fetched[2] \notin Range(target.start_urls)
    /\ Len(enqueued) = 3

\* the delay the specification gives after failed attempt k, in milliseconds:
\* max(0.5, backoff_factor^(k-1)) seconds
SpecifiedBackoff(k) ==
    LET ms == (1000 * backoff_factor ^ (k - 1)) \div (10 ^ (k - 1))
    IN  IF ms >= 500 THEN ms ELSE 500

\* C16: in Fetcher.get every request directly follows one courtesy sleep of a
\* duration within [min_delay, max_delay]; from the second attempt on, that
\* courtesy sleep directly follows a backoff sleep of
\* max(0.5, backoff_factor^(k-1)) seconds for the failed attempt k before it;
\* nothing precedes the courtesy sleep of attempt 1 and no sleep follows the
\* last request.
C16_SleepsBeforeRequests ==
    LET n == Len(outcomes)
    IN  /\ Len(timeline) = IF n = 0 THEN 0 ELSE 3 * n - 1
        /\ \A k \in 1..n :
            /\ timeline[3 * k - 1].kind = "request"
            /\ timeline[3 * k - 2].kind = "courtesy"
            /\ min_delay <= timeline[3 * k - 2].ms
            /\ timeline[3 * k - 2].ms <= max_delay
        /\ \A k \in 1..(n - 1) :
            timeline[3 * k] = [kind |-> "backoff", ms |-> SpecifiedBackoff(k)]

\* three attempts of a fetcher with backoff_factor 0.3 failed: the second
\* backoff sleep took the floor of half a second, and two courtesy sleeps differ
C16_Witness ==
    /\ pc = "get_raise"
    /\ backoff_factor = 3
    /\ Len(outcomes) = 3
    /\ timeline[6] = [kind |-> "backoff", ms |-> 500]
    /\ timeline[1].ms /= timeline[4].ms

\* a 2xx response
Is2xx(o) == o.kind = "response" /\ 200 <= o.status /\ o.status < 300

\* C17: when attempt k is the first to receive a 2xx response, after k - 1
\* retryable failures, get returns that response with exactly k requests
\* issued, and the last thing it did was that request.
C17_FirstSuccessReturns ==
    \A k \in 1..Len(outcomes) :
        (Is2xx(outcomes[k]) /\ AllRetryable(SubSeq(outcomes, 1, k - 1))) =>
            /\ pc = "get_return"
            /\ Len(outcomes) = k
            /\ resp.status = outcomes[k].status
            /\ Len(timeline) = 3 * k - 1
            /\ timeline[Len(timeline)].kind = "request"

\* the third and last attempt got the 200, after a 429 and a timeout
C17_Witness ==
    /\ pc = "get_return"
    /\ max_retries = 3
    /\ Len(outcomes) = 3
    /\ outcomes[1].status = 429
    /\ outcomes[2].kind = "Timeout"
    /\ outcomes[3].status = 200

\* C20: with max_retries >= 1, Fetcher.get issues at least one request and
\* ends by returning the response of its last request or by raising the
\* exception of one of its attempts; raise RuntimeError("Unreachable") is
\* never reached.
C20_UnreachableNotReached ==
    max_retries >= 1 =>
        /\ exc.type /= "RuntimeError"
        /\ pc = "get_loop" => attempt <= max_retries
        /\ pc = "get_return" =>
            /\ Len(outcomes) >= 1
            /\ resp.status = outcomes[Len(outcomes)].status
        /\ pc = "get_raise" =>
            /\ Len(outcomes) >= 1
            /\ \E i \in 1..Len(outcomes) : exc = ExcOf(outcomes[i], i)

\* a fetcher with max_retries = 1 raised the timeout of its only attempt
C20_Witness ==
    /\ pc = "get_raise"
    /\ max_retries = 1
    /\ Len(outcomes) = 1
    /\ exc = [type |-> "Timeout", attempt |-> 1, status |-> 0]

\* C12: a step in which robots_allows denies a URL takes that URL from the
\* front of the queue, adds it to seen_urls (one unit of the budget), makes no
\* call of fetcher.get, collects no record, enqueues nothing and leaves
\* mine_target in its loop; and no URL that was denied is fetched later.
C12_DeniedIsSeenNotFetched ==
    [][/\ Len(denied') > Len(denied) =>
            LET u == denied'[Len(denied')]
            IN  /\ respect_robots
                /\ denied' = Append(denied, u)
                /\ u = Head(queue) /\ queue' = Tail(queue)
                /\ u \notin seen_urls /\ seen_urls' = seen_urls \cup {u}
                /\ Cardinality(seen_urls') = Cardinality(seen_urls) + 1
                /\ UNCHANGED <<fetched, collected, enqueued, get_vars>>
                /\ pc' = "mt_loop"
       /\ Len(fetched') > Len(fetched) => fetched'[Len(fetched')] \notin Range(denied')
      ]_vars

\* a denied URL used one of the two units of the budget, one URL was fetched,
\* and the run ended with a URL left in the queue
C12_Witness ==
    /\ pc = "mt_return"
    /\ max_pages = 2
    /\ Len(denied) = 1
    /\ Len(fetched) = 1
    /\ denied[1] \in seen_urls
    /\ queue /= <<>>

\* C13: with respect_robots on, the number of robots.txt requests of a run
\* equals the number of distinct origins (scheme and host) of the URLs checked.
C13_OneRobotsGetPerOrigin ==
    respect_robots =>
        Len(robots_gets) = Cardinality({Origin(u) : u \in seen_urls \ UnparsableUrls})

\* C18: whenever the queue grows, the target has a discovery function, the
\* old queue is a prefix of the new one, and no URL appended is in seen_urls.
C18_EnqueuedNotSeen ==
    [][Len(queue') > Len(queue) =>
            /\ target.discover
            /\ SubSeq(queue', 1, Len(queue)) = queue
            /\ \A i \in (Len(queue) + 1)..Len(queue') : queue'[i] \notin seen_urls
      ]_vars

\* the one start URL was fetched and discovery left a URL not yet seen in the queue
C18_Witness ==
    /\ pc = "mt_loop"
    /\ target.discover
    /\ Len(target.start_urls) = 1
    /\ fetched = target.start_urls
    /\ Len(queue) = 1
    /\ queue[1] \notin seen_urls

\* C19: when the URL at the front of the queue is in seen_urls and the loop
\* goes on, the step only removes it: seen_urls, collected, the calls of
\* fetcher.get, the robots.txt requests and the denials stay as they were.
C19_SkipOnlyDequeues ==
    [][(/\ pc = "mt_loop"
        /\ queue /= <<>>
        /\ Cardinality(seen_urls) < max_pages
        /\ Head(queue) \in seen_urls) =>
            /\ queue' = Tail(queue)
            /\ pc' = "mt_loop"
            /\ UNCHANGED <<seen_urls, collected, fetched, robots_gets, denied, enqueued,
                           get_vars, resp, exc>>
      ]_vars

\* the second copy of a start URL was skipped after the first was fetched
C19_Witness ==
    /\ pc = "mt_loop"
    /\ Len(target.start_urls) = 2
    /\ target.start_urls[1] = target.start_urls[2]
    /\ fetched = <<target.start_urls[1]>>
    /\ seen_urls = {target.start_urls[1]}
    /\ queue = <<>>
    /\ ~ target.discover

\* the records the specification asks for, one per element of a list of objects
SpecifiedJsonRecords(es, base_url) ==
    [i \in 1..Len(es) |->
        [id     |-> IF "id" \in DOMAIN es[i].members THEN es[i].members["id"] ELSE JNull,
         name   |-> IF "name" \in DOMAIN es[i].members THEN es[i].members["name"] ELSE JNull,
         value  |-> IF "value" \in DOMAIN es[i].members THEN es[i].members["value"] ELSE JNull,
         source |-> base_url]]

ListOfObjects(v) ==
    v.type = "list" /\ \A i \in 1..Len(v.members) : v.members[i].type = "object"

\* C11: parse_example_json returns one record {id, name, value, source} per
\* item for an object with an items list, with null for the fields an item
\* lacks; one such record per element for a body that is a list; and the
\* empty list for any other body.
C11_JsonRecords ==
    pc /= "json_call" =>
        LET data == fn_call.data
        IN  IF data.type = "object" /\ "items" \in DOMAIN data.members
               /\ ListOfObjects(data.members["items"])
            THEN fn_ret = FnReturns(SpecifiedJsonRecords(data.members["items"].members,
                                                         fn_call.base_url))
            ELSE IF ListOfObjects(data)
            THEN fn_ret = FnReturns(SpecifiedJsonRecords(data.members, fn_call.base_url))
            ELSE IF data.type = "object" /\ "items" \notin DOMAIN data.members
            THEN fn_ret = FnReturns(<<>>)
            ELSE IF data.type \in {"number", "null"}
            THEN fn_ret = FnReturns(<<>>)
            ELSE TRUE

\* one of the three elements of the card was found: a title element, a link
\* that leads somewhere, or a price element
SomeElementFound(card) ==
    \/ card.title.found
    \/ card.link.found /\ card.link.has_href /\ card.link.href /= <<>>
    \/ card.price.found

\* C14: parse_example_html gives one record for each card in which at least
\* one of the three elements was found and none for the other cards; each
\* record has title, url and price, null for each element that was not found.
C14_RecordPerCardWithElement ==
    pc = "html_return" =>
        LET found == SelectSeq(fn_call.cards, SomeElementFound)
        IN  /\ ~ fn_ret.raised
            /\ Len(fn_ret.value) = Len(found)
            /\ \A i \in 1..Len(found) :
                /\ {"title", "url", "price"} \subseteq DOMAIN fn_ret.value[i]
                /\ ~ found[i].title.found => fn_ret.value[i].title = PyNone
                /\ ~ found[i].link.found => fn_ret.value[i].url = PyNone
                /\ ~ found[i].price.found => fn_ret.value[i].price = PyNone

\* the file has the header and the rows the specification gives for rows: the
\* header is the union of the keys in ascending order, there is one line per
\* record in input order, and a cell is empty where the record lacks the key
\* and holds the value's text where the record has one
CsvAsSpecified(file, rows) ==
    /\ file.written
    /\ Range(file.header) = UNION {DOMAIN rows[i] : i \in 1..Len(rows)}
    /\ \A i, j \in 1..Len(file.header) :
        i < j => CodePoint(file.header[i]) < CodePoint(file.header[j])
    /\ Len(file.lines) = Len(rows)
    /\ \A i \in 1..Len(rows) :
        /\ Len(file.lines[i]) = Len(file.header)
        /\ \A j \in 1..Len(file.header) :
            LET k == file.header[j]
            IN  /\ k \notin DOMAIN rows[i] => file.lines[i][j] = <<>>
                /\ (k \in DOMAIN rows[i] /\ ~ rows[i][k].is_none) =>
                        file.lines[i][j] = rows[i][k].text

\* C15: for any list of records, write_csv writes a header that is the sorted
\* union of the keys of all records, then one row per record in input order
\* with an empty cell for every key the record lacks.
C15_CsvHeaderAndRows ==
    pc = "csv_return" => CsvAsSpecified(fn_ret.value, fn_call.rows)

=============================================================================
